---- MODULE Spec2Model ----
(***************************************************************************)
(* A model of app.py, the LLM-powered BPM lifecycle demo.                  *)
(*                                                                         *)
(* Text is a sequence of characters, each character a one-character        *)
(* string ("BULLET" stands for the character U+2022).  The three helper    *)
(* functions extract_tasks_from_text, generate_enhanced_bpmn_xml and       *)
(* create_enhanced_graph are operators; main() is a state machine over     *)
(* the script's position, its local variables, the external calls it has   *)
(* issued and the messages it has displayed.                               *)
(***************************************************************************)
EXTENDS Integers, Sequences, FiniteSets, TLC

VARIABLES
    fn,       \* the helper function that has been applied ("none" before)
    src,      \* how the helper's text input was composed, line by line
    arg,      \* the helper's argument
    ret,      \* the helper's return value
    pc,       \* main(): position in the script
    api_key,  \* main(): the credential typed into the text input
    accepted, \* environment: whether the external service accepts api_key
    description, \* main(): the process description in the text area
    clicked,  \* main(): whether the analysis button was pressed
    llm,      \* main(): the client object returned by init_llm, or None
    locals,   \* main(): the stage variables bound so far (name -> value)
    calls,    \* the external model calls issued so far, in order
    shown     \* the notices displayed so far, in order

vars == <<fn, src, arg, ret, pc, api_key, accepted, description, clicked,
          llm, locals, calls, shown>>

helperVars == <<fn, src, arg, ret>>
mainVars == <<pc, api_key, accepted, description, clicked, llm, locals,
              calls, shown>>

None == "None"

(***************************************************************************)
(* Bounds of the model.                                                    *)
(***************************************************************************)
MaxLines == 3     \* lines in an input text of the extractor
MaxTasks == 3     \* tasks in an input list of the two builders

(***************************************************************************)
(* Python string primitives.                                               *)
(***************************************************************************)
NL == "\n"

\* str.isspace() / the regex class \s, on the characters of the model
IsSpace(c) == c \in {" ", "\t", "\r", NL}

\* the regex class \d
IsDigit(c) == c \in {"0", "1", "2", "3", "4", "5", "6", "7", "8", "9"}

\* s[n:]
Drop(s, n) == SubSeq(s, n + 1, Len(s))

\* s[:n]
Take(s, n) == SubSeq(s, 1, IF n < Len(s) THEN n ELSE Len(s))

\* number of leading characters of s that satisfy the class
RECURSIVE SpaceRun(_)
SpaceRun(s) ==
    IF s = <<>> \/ ~IsSpace(Head(s)) THEN 0 ELSE 1 + SpaceRun(Tail(s))

RECURSIVE DigitRun(_)
DigitRun(s) ==
    IF s = <<>> \/ ~IsDigit(Head(s)) THEN 0 ELSE 1 + DigitRun(Tail(s))

RECURSIVE Reverse(_)
Reverse(s) == IF s = <<>> THEN <<>> ELSE Append(Reverse(Tail(s)), Head(s))

\* str.strip()
Strip(s) ==
    LET l == Drop(s, SpaceRun(s))
    IN  Take(l, Len(l) - SpaceRun(Reverse(l)))

\* str.startswith(prefix)
StartsWith(s, prefix) ==
    Len(s) >= Len(prefix) /\ SubSeq(s, 1, Len(prefix)) = prefix

\* str.split('\n'): always at least one piece
RECURSIVE SplitLines(_)
SplitLines(s) ==
    IF \A i \in 1..Len(s) : s[i] # NL
    THEN <<s>>
    ELSE LET k == CHOOSE i \in 1..Len(s) :
                      s[i] = NL /\ \A j \in 1..(i - 1) : s[j] # NL
         IN  <<SubSeq(s, 1, k - 1)>> \o SplitLines(Drop(s, k))

(***************************************************************************)
(* The two line patterns of extract_tasks_from_text, applied by re.match   *)
(* to a line that holds no newline (lines come from split('\n')).  The     *)
(* result is the match: whether the pattern matched, and group(1).         *)
(***************************************************************************)
NoMatch == [matched |-> FALSE, group1 |-> <<>>]

\* \s*(.+)$ on the rest of the line: \s* is greedy and gives back one
\* character when it has swallowed everything (.+ needs a character)
TailMatch(rest) ==
    LET k == SpaceRun(rest)
    IN  IF k < Len(rest) THEN [matched |-> TRUE, group1 |-> Drop(rest, k)]
        ELSE IF k >= 1 THEN [matched |-> TRUE, group1 |-> <<rest[k]>>]
        ELSE NoMatch

\* ^\d+\.\s*(.+)$
numbered_pattern(line) ==
    LET d == DigitRun(line)
    IN  IF d >= 1 /\ Len(line) > d /\ line[d + 1] = "."
        THEN TailMatch(Drop(line, d + 1))
        ELSE NoMatch

\* ^[-BULLET*]\s*(.+)$
bulleted_pattern(line) ==
    IF line # <<>> /\ Head(line) \in {"-", "BULLET", "*"}
    THEN TailMatch(Tail(line))
    ELSE NoMatch

FillerWords ==
    { <<"T", "h", "e">>, <<"T", "h", "i", "s">>, <<"H", "e", "r", "e">>,
      <<"B", "e", "l", "o", "w">> }

MinLineLen == 10

\* the slip of testing len(line) >= 10
IsSubstantialOffByOne(line) ==
    Len(line) >= MinLineLen /\ \A w \in FillerWords : ~StartsWith(line, w)

\* the pattern-free rule: a substantial line that is not an introduction
IsSubstantial(line) ==
    Len(line) > MinLineLen /\ \A w \in FillerWords : ~StartsWith(line, w)

\* the slip of appending the matched line instead of group(1)
ExtractLineKeepsPrefix(tasks, rawline) ==
    LET line == Strip(rawline)
    IN  IF line = <<>> THEN tasks
        ELSE IF numbered_pattern(line).matched THEN Append(tasks, line)
        ELSE IF bulleted_pattern(line).matched THEN Append(tasks, line)
        ELSE IF IsSubstantial(line) THEN Append(tasks, line)
        ELSE tasks

\* one iteration of the loop over lines: the tasks after this line
ExtractLine(tasks, rawline) ==
    LET line == Strip(rawline)
        num == numbered_pattern(line)
        bul == bulleted_pattern(line)
    IN  IF line = <<>> THEN tasks
        ELSE IF num.matched THEN Append(tasks, Strip(num.group1))
        ELSE IF bul.matched THEN Append(tasks, Strip(bul.group1))
        ELSE IF IsSubstantial(line) THEN Append(tasks, line)
        ELSE tasks

RECURSIVE ExtractLoop(_, _)
ExtractLoop(lines, tasks) ==
    IF lines = <<>> THEN tasks
    ELSE ExtractLoop(Tail(lines), ExtractLine(tasks, Head(lines)))

\* [line.strip() for line in text.split('\n') if line.strip()]
RECURSIVE NonBlankLines(_)
NonBlankLines(lines) ==
    IF lines = <<>> THEN <<>>
    ELSE IF Strip(Head(lines)) = <<>> THEN NonBlankLines(Tail(lines))
    ELSE <<Strip(Head(lines))>> \o NonBlankLines(Tail(lines))

\* the slip of returning the tasks without the fallback
ExtractWithoutFallback(text) == ExtractLoop(SplitLines(Strip(text)), <<>>)

extract_tasks_from_text(text) ==
    LET tasks == ExtractLoop(SplitLines(Strip(text)), <<>>)
    IN  IF tasks # <<>> THEN tasks ELSE NonBlankLines(SplitLines(text))

(***************************************************************************)
(* generate_enhanced_bpmn_xml.  The document is modelled by the process    *)
(* dictionary that is serialised: the entries under each tag, in order.    *)
(* The empty string returned for an empty task list holds no entry.        *)
(***************************************************************************)
Ellipsis == <<".", ".", ".">>

XmlNameBudget == 50
GraphLabelBudget == 30

\* task[:50] + ('...' if len(task) > 50 else '')
TaskName(task) ==
    Take(task, XmlNameBudget)
        \o (IF Len(task) > XmlNameBudget THEN Ellipsis ELSE <<>>)

\* f"Task_{i+1}" and f"Flow_{i+1}" for the loop index i (from 0)
TaskId(i) == "Task_" \o ToString(i + 1)
FlowId(i) == "Flow_" \o ToString(i + 1)

\* the loop "for i, task in enumerate(tasks)" that appends the task elements
RECURSIVE TaskElements(_, _, _)
TaskElements(tasks, i, elements) ==
    IF i >= Len(tasks) THEN elements
    ELSE TaskElements(tasks, i + 1,
            Append(elements,
                   [tag |-> "task",
                    attrs |-> [id |-> TaskId(i), name |-> TaskName(tasks[i + 1])]]))

Elements(tasks) ==
    Append(TaskElements(tasks, 0,
               << [tag |-> "startEvent",
                   attrs |-> [id |-> "StartEvent_1", name |-> <<"S", "t", "a", "r", "t">>]] >>),
           [tag |-> "endEvent",
            attrs |-> [id |-> "EndEvent_1", name |-> <<"E", "n", "d">>]])

\* the slip of not advancing prev_id: every flow leaves the start event
RECURSIVE FlowLoopStalePrev(_, _, _, _)
FlowLoopStalePrev(tasks, i, prev_id, flows) ==
    IF i >= Len(tasks) THEN [flows |-> flows, prev_id |-> prev_id]
    ELSE FlowLoopStalePrev(tasks, i + 1, prev_id,
            Append(flows,
                   [id |-> FlowId(i), sourceRef |-> prev_id, targetRef |-> TaskId(i)]))

\* the loop that creates the sequence flows, threading prev_id
RECURSIVE FlowLoop(_, _, _, _)
FlowLoop(tasks, i, prev_id, flows) ==
    IF i >= Len(tasks) THEN [flows |-> flows, prev_id |-> prev_id]
    ELSE FlowLoop(tasks, i + 1, TaskId(i),
            Append(flows,
                   [id |-> FlowId(i), sourceRef |-> prev_id, targetRef |-> TaskId(i)]))

\* the slip of leaving out the final flow to the end event
FlowsWithoutFinal(tasks) == FlowLoop(tasks, 0, "StartEvent_1", <<>>).flows

Flows(tasks) ==
    LET l == FlowLoop(tasks, 0, "StartEvent_1", <<>>)
    IN  Append(l.flows,
               [id |-> FlowId(Len(tasks)), sourceRef |-> l.prev_id,
                targetRef |-> "EndEvent_1"])

\* process_dict[...]['process'][tag]: the attrs of the elements of one tag
RECURSIVE ByTag(_, _)
ByTag(elements, tag) ==
    IF elements = <<>> THEN <<>>
    ELSE (IF Head(elements).tag = tag THEN <<Head(elements).attrs>> ELSE <<>>)
             \o ByTag(Tail(elements), tag)

EmptyDocument ==
    [startEvent |-> <<>>, task |-> <<>>, endEvent |-> <<>>, sequenceFlow |-> <<>>]

generate_enhanced_bpmn_xml(tasks) ==
    IF tasks = <<>> THEN EmptyDocument
    ELSE [startEvent |-> ByTag(Elements(tasks), "startEvent"),
          task |-> ByTag(Elements(tasks), "task"),
          endEvent |-> ByTag(Elements(tasks), "endEvent"),
          sequenceFlow |-> Flows(tasks)]

(***************************************************************************)
(* create_enhanced_graph.  The graph is modelled by the node and edge      *)
(* statements added to the Digraph, in order.                              *)
(***************************************************************************)
\* the slip of testing len(task) >= 30
DisplayNameOffByOne(task) ==
    IF Len(task) >= GraphLabelBudget
    THEN Take(task, GraphLabelBudget) \o Ellipsis
    ELSE task

\* task[:30] + '...' if len(task) > 30 else task
DisplayName(task) ==
    IF Len(task) > GraphLabelBudget
    THEN Take(task, GraphLabelBudget) \o Ellipsis
    ELSE task

NodeId(i) == "task_" \o ToString(i)

\* the loop over the tasks: a node and an edge from prev_node per task
RECURSIVE GraphLoop(_, _, _, _)
GraphLoop(tasks, i, prev_node, dot) ==
    IF i >= Len(tasks) THEN [dot |-> dot, prev_node |-> prev_node]
    ELSE GraphLoop(tasks, i + 1, NodeId(i),
            [nodes |-> Append(dot.nodes,
                              [id |-> NodeId(i), label |-> DisplayName(tasks[i + 1])]),
             edges |-> Append(dot.edges, <<prev_node, NodeId(i)>>)])

\* the slip of adding the edge to the end node without the "if tasks" test
GraphWithUnguardedEndEdge(tasks) ==
    LET l == GraphLoop(tasks, 0, "start",
                 [nodes |-> << [id |-> "start", label |-> <<"S", "T", "A", "R", "T">>] >>,
                  edges |-> <<>>])
    IN  [nodes |-> Append(l.dot.nodes, [id |-> "end", label |-> <<"E", "N", "D">>]),
         edges |-> Append(l.dot.edges, <<l.prev_node, "end">>)]

create_enhanced_graph(tasks) ==
    LET l == GraphLoop(tasks, 0, "start",
                 [nodes |-> << [id |-> "start", label |-> <<"S", "T", "A", "R", "T">>] >>,
                  edges |-> <<>>])
        nodes == Append(l.dot.nodes, [id |-> "end", label |-> <<"E", "N", "D">>])
    IN  [nodes |-> nodes,
         edges |-> IF tasks # <<>> THEN Append(l.dot.edges, <<l.prev_node, "end">>)
                   ELSE l.dot.edges]

(***************************************************************************)
(* Inputs of the helpers.  A text is composed line by line: each line is   *)
(* leading blanks, a list mark (digits and a dot, or a bullet), a gap, a   *)
(* body and trailing blanks; src keeps the composition, arg its rendering. *)
(***************************************************************************)
Alphabet == <<"a", "b", "c", "d", "e", "f", "g", "h", "i", "j", "k", "l">>

Letters(n) == [i \in 1..n |-> Alphabet[((i - 1) % Len(Alphabet)) + 1]]

Blank(lead) ==
    [kind |-> "blank", lead |-> lead, mark |-> <<>>, gap |-> <<>>,
     body |-> <<>>, trail |-> <<>>]

Numbered(lead, digits, gap, body, trail) ==
    [kind |-> "numbered", lead |-> lead, mark |-> digits \o <<".">>, gap |-> gap,
     body |-> body, trail |-> trail]

Bulleted(lead, marker, gap, body, trail) ==
    [kind |-> "bulleted", lead |-> lead, mark |-> <<marker>>, gap |-> gap,
     body |-> body, trail |-> trail]

Plain(lead, body, trail) ==
    [kind |-> "plain", lead |-> lead, mark |-> <<>>, gap |-> <<>>,
     body |-> body, trail |-> trail]

SampleLines ==
    { Blank(<<>>),
      Blank(<<" ", "\t">>),
      Numbered(<<>>, <<"1">>, <<" ">>, <<"A">>, <<>>),
      Numbered(<<" ">>, <<"2">>, <<" ", " ">>, <<"D", "o", " ", "i", "t">>, <<" ", "\r">>),
      Numbered(<<>>, <<"1", "2">>, <<>>, <<"B", "c">>, <<>>),
      Numbered(<<>>, <<"3">>, <<" ">>, <<"4", ".", " ", "x">>, <<>>),
      Bulleted(<<>>, "-", <<" ">>, <<"x">>, <<>>),
      Bulleted(<<" ">>, "*", <<>>, <<"*", "y">>, <<" ">>),
      Bulleted(<<>>, "BULLET", <<" ">>, <<"T", "h", "e", " ", "z">>, <<>>),
      Plain(<<>>, <<"a", "b", "c">>, <<>>),
      Plain(<<>>, <<"1", ".">>, <<>>),
      Plain(<<>>, Letters(MinLineLen), <<>>),
      Plain(<<>>, Letters(MinLineLen + 1), <<>>),
      Plain(<<" ", " ">>, Letters(MinLineLen - 1), <<" ", " ">>),
      Plain(<<" ">>, <<"t", "h", "e", " ">> \o Letters(MinLineLen), <<>>),
      Plain(<<>>, <<"T", "h", "e", "n", " ">> \o Letters(MinLineLen), <<>>),
      Plain(<<" ">>, <<"T", "h", "i", "s", " ">> \o Letters(MinLineLen), <<>>),
      Plain(<<>>, <<"H", "e", "r", "e", " ">> \o Letters(MinLineLen), <<>>),
      Plain(<<>>, <<"B", "e", "l", "o", "w", " ">> \o Letters(MinLineLen), <<>>) }

RenderLine(d) == d.lead \o d.mark \o d.gap \o d.body \o d.trail

\* the lines joined by newlines
RECURSIVE RenderText(_)
RenderText(ds) ==
    IF ds = <<>> THEN <<>>
    ELSE IF Len(ds) = 1 THEN RenderLine(ds[1])
    ELSE RenderLine(ds[1]) \o <<NL>> \o RenderText(Tail(ds))

SeqsUpTo(S, n) == UNION { [1..k -> S] : k \in 0..n }

Compositions == SeqsUpTo(SampleLines, MaxLines)

\* task texts around the two truncation budgets
TaskTexts ==
    { Letters(n) : n \in {1, GraphLabelBudget, GraphLabelBudget + 1,
                          XmlNameBudget, XmlNameBudget + 1, XmlNameBudget + 9} }

TaskLists == SeqsUpTo(TaskTexts, MaxTasks)

(***************************************************************************)
(* The helpers as state machines: the input is drawn in the initial state  *)
(* and one action applies the function.                                    *)
(***************************************************************************)
MainIdle ==
    /\ pc = "idle"
    /\ api_key = ""
    /\ accepted = FALSE
    /\ description = <<>>
    /\ clicked = FALSE
    /\ llm = None
    /\ locals = <<>>
    /\ calls = <<>>
    /\ shown = <<>>

HelperIdle ==
    /\ fn = "none"
    /\ src = <<>>
    /\ arg = <<>>
    /\ ret = None

InitExtract ==
    /\ fn = "none"
    /\ src \in Compositions
    /\ arg = RenderText(src)
    /\ ret = None
    /\ MainIdle

ExtractTasks ==
    /\ fn = "none"
    /\ fn' = "extract_tasks_from_text"
    /\ ret' = extract_tasks_from_text(arg)
    /\ UNCHANGED <<src, arg>>
    /\ UNCHANGED mainVars

NextExtract == ExtractTasks

SpecExtract == InitExtract /\ [][NextExtract]_vars

InitBuild ==
    /\ fn = "none"
    /\ src = <<>>
    /\ arg \in TaskLists
    /\ ret = None
    /\ MainIdle

GenerateBpmnXml ==
    /\ fn = "none"
    /\ fn' = "generate_enhanced_bpmn_xml"
    /\ ret' = generate_enhanced_bpmn_xml(arg)
    /\ UNCHANGED <<src, arg>>
    /\ UNCHANGED mainVars

CreateGraph ==
    /\ fn = "none"
    /\ fn' = "create_enhanced_graph"
    /\ ret' = create_enhanced_graph(arg)
    /\ UNCHANGED <<src, arg>>
    /\ UNCHANGED mainVars

NextBuild == GenerateBpmnXml \/ CreateGraph

SpecBuild == InitBuild /\ [][NextBuild]_vars

(***************************************************************************)
(* main(): one run of the script.  The widget values (credential,          *)
(* description, button) are drawn in the initial state; every stage's      *)
(* external call may return any of the Replies or raise.                   *)
(***************************************************************************)
Stages == <<"identification", "discovery", "analysis", "redesign", "monitoring">>

\* texts the external model may return: a numbered list, prose and blanks
Replies ==
    { RenderText(<< Numbered(<<>>, <<"1">>, <<" ">>, <<"A">>, <<>>),
                    Numbered(<<>>, <<"2">>, <<" ">>, Letters(GraphLabelBudget + 1), <<>>) >>),
      RenderText(<< Plain(<<>>, <<"a", "b", "c">>, <<>>) >>),
      <<" ", NL>> }

Descriptions == { <<>>, <<" ", NL>>, <<"O", "r", "d", "e", "r">> }

Notice(kind, text) == [kind |-> kind, text |-> text]

\* name = value in main()'s scope
Bind(ls, name, value) == (name :> value) @@ ls

\* 'name' in locals()
IsBound(ls, name) == name \in DOMAIN ls

Unbound == "Unbound"

Lookup(ls, name) == IF IsBound(ls, name) THEN ls[name] ELSE Unbound

\* the slip of testing a variable that is bound only after the predecessor's
\* result has been processed
RequiresProcessedResult(stage) ==
    CASE stage = "analysis" -> {"current_tasks"}
      [] stage = "redesign" -> {"analysis_result"}
      [] stage = "monitoring" -> {"redesigned_tasks"}
      [] OTHER -> {}

\* the result variable a later stage tests with "in locals()", if any
Requires(stage) ==
    CASE stage = "analysis" -> {"discovery_result"}
      [] stage = "redesign" -> {"analysis_result"}
      [] stage = "monitoring" -> {"redesign_result"}
      [] OTHER -> {}

\* the slip of attempting a stage whatever its predecessor left
MayAttemptAlways(stage, ls) == TRUE

\* the guard in front of a stage's spinner
MayAttempt(stage, ls) == \A name \in Requires(stage) : IsBound(ls, name)

\* the keyword arguments of chain.run for each stage
CallInput(stage, ls) ==
    CASE stage = "identification" -> <<description>>
      [] stage = "discovery" -> <<description>>
      [] stage = "analysis" -> <<Lookup(ls, "discovery_result")>>
      [] stage = "redesign" ->
            <<Lookup(ls, "discovery_result"), Lookup(ls, "analysis_result")>>
      [] stage = "monitoring" -> <<Lookup(ls, "redesign_result")>>

ResultVar(stage) == stage \o "_result"

SkipNotice(stage) ==
    CASE stage = "analysis" -> "Please complete the Discovery stage first."
      [] stage = "redesign" -> "Please complete the Analysis stage first."
      [] stage = "monitoring" -> "Please complete the Redesign stage first."

ErrorNotice(stage) == Notice("error", "Error in " \o stage \o " stage")

SuccessNotice ==
    Notice("success", "Complete BPM Lifecycle Analysis Generated Successfully!")

\* init_llm: no client without a key; otherwise whatever the constructor does
\* (raised = TRUE when the ChatOpenAI constructor raises)
init_llm(key, raised) == IF key = "" \/ raised THEN None ELSE "ChatOpenAI"

InitMain ==
    /\ HelperIdle
    /\ pc = "start"
    /\ api_key \in {"", "sk-key"}
    /\ accepted \in (IF api_key = "" THEN {FALSE} ELSE BOOLEAN)
    /\ description \in Descriptions
    /\ clicked \in BOOLEAN
    /\ llm = None
    /\ locals = <<>>
    /\ calls = <<>>
    /\ shown = <<>>

\* "if not api_key": the guidance text, then return
KeyMissing ==
    /\ pc = "start"
    /\ api_key = ""
    /\ shown' = Append(shown,
                    Notice("warning", "Please enter your OpenAI API key to continue."))
    /\ pc' = "returned"
    /\ UNCHANGED <<api_key, accepted, description, clicked, llm, locals, calls>>
    /\ UNCHANGED helperVars

\* llm = init_llm(api_key, model_choice) and the test that follows
InitLlm ==
    /\ pc = "start"
    /\ api_key # ""
    /\ \E raised \in BOOLEAN :
          /\ llm' = init_llm(api_key, raised)
          /\ IF llm' = None
             THEN /\ shown' = shown \o
                        (IF raised
                         THEN <<Notice("error", "Error initializing OpenAI API")>>
                         ELSE <<>>) \o
                        <<Notice("error",
                                 "Failed to initialize OpenAI API. Please check your API key.")>>
                  /\ pc' = "returned"
             ELSE /\ shown' = Append(shown,
                                  Notice("success", "Successfully connected to OpenAI API"))
                  /\ pc' = "button"
    /\ UNCHANGED <<api_key, accepted, description, clicked, locals, calls>>
    /\ UNCHANGED helperVars

\* the button was not pressed in this run: the script ends
ButtonIdle ==
    /\ pc = "button"
    /\ ~clicked
    /\ pc' = "returned"
    /\ UNCHANGED <<api_key, accepted, description, clicked, llm, locals, calls, shown>>
    /\ UNCHANGED helperVars

\* the slip of testing "if not process_description" without strip()
ButtonPressedUnstripped ==
    /\ pc = "button"
    /\ clicked
    /\ IF description = <<>>
       THEN /\ shown' = Append(shown,
                            Notice("error", "Please provide a process description!"))
            /\ pc' = "returned"
       ELSE /\ shown' = shown
            /\ pc' = "identification"
    /\ UNCHANGED <<api_key, accepted, description, clicked, llm, locals, calls>>
    /\ UNCHANGED helperVars

\* the button was pressed: the description is validated, then the tabs are made
ButtonPressed ==
    /\ pc = "button"
    /\ clicked
    /\ IF Strip(description) = <<>>
       THEN /\ shown' = Append(shown,
                            Notice("error", "Please provide a process description!"))
            /\ pc' = "returned"
       ELSE /\ shown' = shown
            /\ pc' = "identification"
    /\ UNCHANGED <<api_key, accepted, description, clicked, llm, locals, calls>>
    /\ UNCHANGED helperVars

(***************************************************************************)
(* The stages.  Each stage action is the whole "with tab" block: the guard *)
(* on the predecessor's variable, the external call, the handling of its   *)
(* result and the except clause.                                           *)
(***************************************************************************)
Issue(stage) ==
    calls' = Append(calls, [stage |-> stage, input |-> CallInput(stage, locals)])

\* chain.run returns r: the result is bound and displayed
CallReturns(stage, r, tail) ==
    /\ accepted
    /\ Issue(stage)
    /\ locals' = Bind(locals, ResultVar(stage), r)
    /\ shown' = shown \o <<Notice("markdown", stage)>> \o tail

\* the slip of an except clause that swallows the error
CallRaisesSilently(stage, tail) ==
    /\ Issue(stage)
    /\ locals' = locals
    /\ shown' = shown \o tail

\* chain.run raises: the except clause reports it
CallRaises(stage, tail) ==
    /\ Issue(stage)
    /\ locals' = locals
    /\ shown' = shown \o <<ErrorNotice(stage)>> \o tail

\* the else branch of the guard: a notice and no call
Skip(stage, tail) ==
    /\ calls' = calls
    /\ locals' = locals
    /\ shown' = shown \o <<Notice("warning", SkipNotice(stage))>> \o tail

\* the names a diagram stage binds
Prefix(stage) == IF stage = "discovery" THEN "current" ELSE "redesigned"

\* the statements after chain.run in a diagram stage, up to the point failAt
\* where one of them raises ("none": none does): the variables bound and the
\* notices displayed
AfterCall(stage, ls, r, failAt) ==
    LET ls1 == Bind(ls, ResultVar(stage), r)
        tasks == extract_tasks_from_text(r)
        ls2 == Bind(ls1, Prefix(stage) \o "_tasks", tasks)
        ls3 == Bind(ls2, Prefix(stage) \o "_graph", create_enhanced_graph(tasks))
        ls4 == Bind(ls3, Prefix(stage) \o "_xml", generate_enhanced_bpmn_xml(tasks))
        text == <<Notice("markdown", stage)>>
        err == <<ErrorNotice(stage)>>
    IN  CASE failAt = "extraction" -> [locals |-> ls1, shown |-> err]
          [] failAt = "graph" -> [locals |-> ls3, shown |-> text \o err]
          [] failAt = "xml" -> [locals |-> ls4, shown |-> text \o err]
          [] failAt = "none" /\ tasks = <<>> -> [locals |-> ls2, shown |-> text]
          [] failAt = "none" /\ tasks # <<>> ->
                [locals |-> ls4, shown |-> text \o <<Notice("download", stage)>>]

\* where the statements after the call can raise for the reply r
FailurePoints(r) ==
    {"none", "extraction"}
        \cup (IF extract_tasks_from_text(r) # <<>> THEN {"graph", "xml"} ELSE {})

CallReturnsTasks(stage, r, failAt, tail) ==
    /\ accepted
    /\ Issue(stage)
    /\ locals' = AfterCall(stage, locals, r, failAt).locals
    /\ shown' = shown \o AfterCall(stage, locals, r, failAt).shown \o tail

Identification ==
    /\ pc = "identification"
    /\ \/ \E r \in Replies : CallReturns("identification", r, <<>>)
       \/ CallRaises("identification", <<>>)
    /\ pc' = "discovery"
    /\ UNCHANGED <<api_key, accepted, description, clicked, llm>>
    /\ UNCHANGED helperVars

Discovery ==
    /\ pc = "discovery"
    /\ \/ CallRaises("discovery", <<>>)
       \/ \E r \in Replies : \E failAt \in FailurePoints(r) :
              CallReturnsTasks("discovery", r, failAt, <<>>)
    /\ pc' = "analysis"
    /\ UNCHANGED <<api_key, accepted, description, clicked, llm>>
    /\ UNCHANGED helperVars

Analysis ==
    /\ pc = "analysis"
    /\ IF MayAttempt("analysis", locals)
       THEN \/ \E r \in Replies : CallReturns("analysis", r, <<>>)
            \/ CallRaises("analysis", <<>>)
       ELSE Skip("analysis", <<>>)
    /\ pc' = "redesign"
    /\ UNCHANGED <<api_key, accepted, description, clicked, llm>>
    /\ UNCHANGED helperVars

Redesign ==
    /\ pc = "redesign"
    /\ IF MayAttempt("redesign", locals)
       THEN \/ CallRaises("redesign", <<>>)
            \/ \E r \in Replies : \E failAt \in FailurePoints(r) :
                   CallReturnsTasks("redesign", r, failAt, <<>>)
       ELSE Skip("redesign", <<>>)
    /\ pc' = "monitoring"
    /\ UNCHANGED <<api_key, accepted, description, clicked, llm>>
    /\ UNCHANGED helperVars

\* the slip of an except clause that returns from main()
MonitoringReturnsOnError ==
    /\ pc = "monitoring"
    /\ IF MayAttempt("monitoring", locals)
       THEN \/ /\ \E r \in Replies : CallReturns("monitoring", r, <<SuccessNotice>>)
               /\ pc' = "done"
            \/ /\ CallRaises("monitoring", <<>>)
               /\ pc' = "returned"
       ELSE /\ Skip("monitoring", <<SuccessNotice>>)
            /\ pc' = "done"
    /\ UNCHANGED <<api_key, accepted, description, clicked, llm>>
    /\ UNCHANGED helperVars

\* the last tab, followed by the closing success notice
Monitoring ==
    /\ pc = "monitoring"
    /\ IF MayAttempt("monitoring", locals)
       THEN \/ \E r \in Replies : CallReturns("monitoring", r, <<SuccessNotice>>)
            \/ CallRaises("monitoring", <<SuccessNotice>>)
       ELSE Skip("monitoring", <<SuccessNotice>>)
    /\ pc' = "done"
    /\ UNCHANGED <<api_key, accepted, description, clicked, llm>>
    /\ UNCHANGED helperVars

Init == InitMain

Next ==
    \/ KeyMissing
    \/ InitLlm
    \/ ButtonIdle
    \/ ButtonPressed
    \/ Identification
    \/ Discovery
    \/ Analysis
    \/ Redesign
    \/ Monitoring

Spec == Init /\ [][Next]_vars

\* the script runs on one thread and every external call blocks until it
\* returns or raises, so a step that can be taken is taken
FairSpec == Spec /\ WF_vars(Next)

(***************************************************************************)
(* Properties of the two builders, checked under SpecBuild.                *)
(***************************************************************************)
AppliedXml == fn = "generate_enhanced_bpmn_xml"
AppliedGraph == fn = "create_enhanced_graph"

Entries(doc) ==
    Len(doc.startEvent) + Len(doc.task) + Len(doc.endEvent) + Len(doc.sequenceFlow)

ElementCounts(doc, n) ==
    /\ Len(doc.startEvent) = 1
    /\ Len(doc.endEvent) = 1
    /\ Len(doc.task) = n
    /\ Len(doc.sequenceFlow) = n + 1

\* C1 as stated: for every task list of length n >= 0, the empty list
\* included, the document has exactly one start element, one end element,
\* n task entries and n + 1 sequence-flow entries.
C1_CountsForEveryList == AppliedXml => ElementCounts(ret, Len(arg))

\* C1 amended: for every task list of length n >= 1 the document has exactly
\* one start element, one end element, n task entries and n + 1 sequence-flow
\* entries; for the empty list the result is the empty string, which holds no
\* start, end, task or flow entry.
C1_CountsForNonEmptyList ==
    AppliedXml =>
        IF arg # <<>> THEN ElementCounts(ret, Len(arg)) ELSE Entries(ret) = 0

C1_Witness ==
    /\ AppliedXml
    /\ Len(arg) >= 2
    /\ Len(ret.task) = Len(arg)
    /\ Len(ret.sequenceFlow) = Len(arg) + 1

\* the element a chain of n tasks has at position k (0: start, n + 1: end)
ChainElement(k, n) ==
    IF k = 0 THEN "StartEvent_1"
    ELSE IF k = n + 1 THEN "EndEvent_1"
    ELSE "Task_" \o ToString(k)

\* C2: for n >= 1 tasks the flows form a single chain in list order: flow i
\* is Flow_i from Task_(i-1) (StartEvent_1 for i = 1) to Task_i, flow n + 1
\* runs from Task_n to EndEvent_1, every flow starts where the previous one
\* ends, no element is the source of two flows or the target of two flows,
\* and task ids and flow ids are pairwise distinct even when texts repeat.
C2_FlowsFormOneChain ==
    (AppliedXml /\ Len(arg) >= 1) =>
        LET n == Len(arg)
            f == ret.sequenceFlow
            t == ret.task
        IN  /\ Len(f) = n + 1
            /\ \A i \in 1..(n + 1) :
                  /\ f[i].id = "Flow_" \o ToString(i)
                  /\ f[i].sourceRef = ChainElement(i - 1, n)
                  /\ f[i].targetRef = ChainElement(i, n)
            /\ f[1].sourceRef = ret.startEvent[1].id
            /\ f[n + 1].targetRef = ret.endEvent[1].id
            /\ \A i \in 1..n : f[i].targetRef = t[i].id /\ f[i + 1].sourceRef = t[i].id
            /\ \A i \in 2..(n + 1) : f[i].sourceRef = f[i - 1].targetRef
            /\ \A i, j \in 1..(n + 1) :
                  i # j => /\ f[i].sourceRef # f[j].sourceRef
                           /\ f[i].targetRef # f[j].targetRef
                           /\ f[i].id # f[j].id
            /\ \A i, j \in 1..n : i # j => t[i].id # t[j].id

C2_Witness ==
    /\ AppliedXml
    /\ Len(arg) >= 3
    /\ arg[1] = arg[2]
    /\ ret.sequenceFlow[3].sourceRef = "Task_2"
    /\ ret.sequenceFlow[3].targetRef = "Task_3"

NodeIds(g) == { g.nodes[i].id : i \in 1..Len(g.nodes) }

\* C3: the graph has exactly one start node, one end node and one node per
\* task, n + 2 distinct nodes even when texts repeat; for n >= 1 its edges
\* are exactly start -> task_0 -> ... -> task_(n-1) -> end, a single path
\* without branching or cycle; for n = 0 it has the two nodes start and end
\* and no edge.
C3_GraphIsOnePath ==
    AppliedGraph =>
        LET n == Len(arg)
            nd == ret.nodes
            e == ret.edges
        IN  /\ Len(nd) = n + 2
            /\ Cardinality(NodeIds(ret)) = n + 2
            /\ nd[1].id = "start"
            /\ nd[n + 2].id = "end"
            /\ \A i \in 1..(n + 2) :
                  /\ nd[i].id = "start" <=> i = 1
                  /\ nd[i].id = "end" <=> i = n + 2
            /\ IF n = 0 THEN e = <<>>
               ELSE /\ Len(e) = n + 1
                    /\ \A i \in 1..(n + 1) : e[i] = <<nd[i].id, nd[i + 1].id>>
                    /\ \A i \in 1..n : nd[i + 1].id = "task_" \o ToString(i - 1)

C3_Witness ==
    /\ AppliedGraph
    /\ Len(arg) >= 2
    /\ arg[1] = arg[2]
    /\ Len(ret.edges) = Len(arg) + 1
    /\ ret.nodes[2].id # ret.nodes[3].id

\* name is text cut to the budget: the first budget characters and the
\* ellipsis when text is longer than the budget, text itself otherwise
CutTo(name, text, budget) ==
    IF Len(text) > budget
    THEN /\ Len(name) = budget + 3
         /\ \A k \in 1..budget : name[k] = text[k]
         /\ \A k \in (budget + 1)..(budget + 3) : name[k] = "."
    ELSE name = text

\* C4: in both builders a task longer than the budget (30 characters for node
\* labels, 50 for task names) is displayed as its first budget characters
\* followed by '...', so the name ends with the ellipsis and is never longer
\* than budget + 3; a task of at most budget characters is displayed unchanged.
C4_NamesAreCutToBudget ==
    /\ AppliedXml =>
          \A i \in 1..Len(ret.task) : CutTo(ret.task[i].name, arg[i], 50)
    /\ AppliedGraph =>
          \A i \in 1..Len(arg) : CutTo(ret.nodes[i + 1].label, arg[i], 30)

C4_Witness ==
    /\ AppliedGraph
    /\ Len(arg) >= 2
    /\ Len(arg[1]) = 31
    /\ Len(ret.nodes[2].label) = 33
    /\ Len(arg[2]) = 30
    /\ ret.nodes[3].label = arg[2]

(***************************************************************************)
(* Properties of the extractor, checked under SpecExtract.  They are       *)
(* stated over the composition src of the input text, so that rendering    *)
(* the lines and parsing them back is what is checked.  A line is taken as *)
(* the extractor takes it, without its leading and trailing whitespace.    *)
(***************************************************************************)
AppliedExtract == fn = "extract_tasks_from_text"

\* some line of the text is not blank: some character is not whitespace
HasNonBlankLine(text) ==
    \E i \in 1..Len(text) : text[i] \notin {" ", "\t", "\r", "\n"}

\* C5: a text with at least one non-blank line yields a non-empty list, every
\* element of the list is a non-empty string, and the list is empty only when
\* every line of the text is blank.
C5_NonBlankInputNonEmptyOutput ==
    AppliedExtract =>
        /\ HasNonBlankLine(arg) => ret # <<>>
        /\ \A i \in 1..Len(ret) : ret[i] # <<>>
        /\ ret = <<>> => ~HasNonBlankLine(arg)

\* no line qualifies, one is blank, one is a short line: the fallback
C5_Witness ==
    /\ AppliedExtract
    /\ Len(src) = 2
    /\ src[1].kind = "blank"
    /\ src[2].kind = "plain"
    /\ Len(src[2].body) = 3
    /\ ret = <<src[2].body>>

\* the bodies of the lines ds, in order
Bodies(ds) == [i \in 1..Len(ds) |-> ds[i].body]

IsNonBlank(d) == d.kind # "blank"

\* the form '<digits>. <text>'
HasNumberedForm(d) == d.kind = "numbered" /\ d.gap # <<>> /\ d.body # <<>>

\* C6: when every non-blank line has the form '<digits>. <text>', the result
\* is exactly the lines' texts without the number prefix, one per line and in
\* line order, however short the texts are.
C6_NumberedInputYieldsTexts ==
    (AppliedExtract /\ \A k \in 1..Len(src) : IsNonBlank(src[k]) => HasNumberedForm(src[k]))
        => ret = Bodies(SelectSeq(src, IsNonBlank))

C6_Witness ==
    /\ AppliedExtract
    /\ Len(src) = 3
    /\ \A k \in 1..3 : HasNumberedForm(src[k])
    /\ src[1].body # src[2].body
    /\ Len(src[2].body) = 1
    /\ ret = <<src[1].body, src[2].body, src[3].body>>

BeginsWithFiller(t) ==
    \/ Len(t) >= 3 /\ <<t[1], t[2], t[3]>> = <<"T", "h", "e">>
    \/ Len(t) >= 4 /\ <<t[1], t[2], t[3], t[4]>> = <<"T", "h", "i", "s">>
    \/ Len(t) >= 4 /\ <<t[1], t[2], t[3], t[4]>> = <<"H", "e", "r", "e">>
    \/ Len(t) >= 5 /\ <<t[1], t[2], t[3], t[4], t[5]>> = <<"B", "e", "l", "o", "w">>

\* the rules under which a line contributes to the main result
Qualifies(d) ==
    \/ d.kind \in {"numbered", "bulleted"}
    \/ d.kind = "plain" /\ Len(d.body) > 10 /\ ~BeginsWithFiller(d.body)

\* C7: the result holds, in line order, one element per qualifying line and
\* nothing else: the trailing text of a numbered or bulleted line, and a
\* non-matching line of more than 10 characters that does not start with
\* 'The', 'This', 'Here' or 'Below' as it is; every non-blank line is returned
\* instead if and only if no line qualifies, so a short or filler-prefixed
\* non-matching line is returned only in that fallback case.
C7_QualifyingLinesOrFallback ==
    AppliedExtract =>
        IF \E k \in 1..Len(src) : Qualifies(src[k])
        THEN ret = Bodies(SelectSeq(src, Qualifies))
        ELSE ret = Bodies(SelectSeq(src, IsNonBlank))

\* a short line, a numbered line and a filler-prefixed line: only the
\* numbered line's text is returned
C7_Witness ==
    /\ AppliedExtract
    /\ Len(src) = 3
    /\ src[1].kind = "plain" /\ Len(src[1].body) <= 10
    /\ src[2].kind = "numbered"
    /\ src[3].kind = "plain" /\ Len(src[3].body) > 10 /\ BeginsWithFiller(src[3].body)
    /\ ret = <<src[2].body>>

(***************************************************************************)
(* Properties of one run of main(), checked under Spec.                    *)
(***************************************************************************)
StageNo(stage) == CHOOSE k \in 1..5 : Stages[k] = stage

\* the number of the stage the run is about to handle (6: all handled,
\* 0: the run has not entered the stages)
Position ==
    CASE pc \in {"identification", "discovery", "analysis", "redesign", "monitoring"}
            -> StageNo(pc)
      [] pc = "done" -> 6
      [] OTHER -> 0

\* the external call of the stage was issued
Attempted(stage) == \E i \in 1..Len(calls) : calls[i].stage = stage

\* the stage's "Please complete ... first" notice was displayed
Skipped(stage) ==
    \/ stage = "analysis" /\ \E i \in 1..Len(shown) :
          shown[i] = [kind |-> "warning", text |-> "Please complete the Discovery stage first."]
    \/ stage = "redesign" /\ \E i \in 1..Len(shown) :
          shown[i] = [kind |-> "warning", text |-> "Please complete the Analysis stage first."]
    \/ stage = "monitoring" /\ \E i \in 1..Len(shown) :
          shown[i] = [kind |-> "warning", text |-> "Please complete the Redesign stage first."]

\* the stage's call returned: its output exists
HasOutput(stage) == (stage \o "_result") \in DOMAIN locals

\* the outputs a stage needs before it is attempted
Needs(stage) ==
    CASE stage = "analysis" -> {"discovery"}
      [] stage = "redesign" -> {"discovery", "analysis"}
      [] stage = "monitoring" -> {"redesign"}
      [] OTHER -> {}

\* C8: the five stages are handled strictly in the order identification,
\* discovery, analysis, redesign, monitoring; a stage whose predecessor has
\* produced no output is skipped with a notice instead of attempted: the
\* analysis call is issued only if discovery's output exists, the redesign
\* call only if discovery's and analysis's outputs exist, the monitoring call
\* only if redesign's output exists; a skipped stage issues no call.
C8_StagesInOrderAndGuarded ==
    /\ \A k \in 1..5 : (Attempted(Stages[k]) \/ Skipped(Stages[k])) <=> Position > k
    /\ \A i, j \in 1..Len(calls) : i < j => StageNo(calls[i].stage) < StageNo(calls[j].stage)
    /\ \A k \in 1..5 :
          /\ Attempted(Stages[k]) => \A p \in Needs(Stages[k]) : HasOutput(p)
          /\ Skipped(Stages[k]) => ~Attempted(Stages[k])
          /\ (Position > k /\ \E p \in Needs(Stages[k]) : ~HasOutput(p))
                => Skipped(Stages[k])

\* discovery's call failed, and the three later stages were skipped
C8_Witness ==
    /\ pc = "done"
    /\ Len(calls) = 2
    /\ calls[2].stage = "discovery"
    /\ ~HasOutput("discovery")
    /\ Skipped("analysis") /\ Skipped("redesign") /\ Skipped("monitoring")

\* the stage's call was issued and produced no output: it failed
CallFailed(stage) == Attempted(stage) /\ ~HasOutput(stage)

\* the stages whose output a stage's input is computed from, directly or not
DependsOn(stage) ==
    CASE stage = "analysis" -> {"discovery"}
      [] stage = "redesign" -> {"discovery", "analysis"}
      [] stage = "monitoring" -> {"discovery", "analysis", "redesign"}
      [] OTHER -> {}

\* C9: a failure of a stage's external call is caught at that stage and
\* reported as an inline error without aborting the run: the run goes on to
\* every later stage, which is attempted or skipped with a notice, a stage
\* that does not depend on a failed stage is attempted, and a failure of
\* identification never keeps discovery from being attempted.
C9_FailureIsReportedRunGoesOn ==
    /\ \A k \in 1..5 :
          CallFailed(Stages[k]) =>
              /\ \E i \in 1..Len(shown) :
                    shown[i] = [kind |-> "error",
                                text |-> "Error in " \o Stages[k] \o " stage"]
              /\ Position > k
              /\ pc # "returned"
              /\ \A m \in (k + 1)..5 :
                    Position > m => Attempted(Stages[m]) \/ Skipped(Stages[m])
    /\ \A m \in 1..5 :
          (Position > m /\ \A d \in DependsOn(Stages[m]) : ~CallFailed(d))
              => Attempted(Stages[m])
    /\ Position > 2 => Attempted("discovery")

\* identification's call failed and all four later stages were attempted
C9_Witness ==
    /\ pc = "done"
    /\ CallFailed("identification")
    /\ Len(calls) = 5
    /\ HasOutput("monitoring")

\* C10: a missing or invalid credential is detected before any stage runs:
\* when the credential is empty or is not accepted by the external service,
\* no stage's external call is issued.
C10_BadCredentialIssuesNoCall ==
    (api_key = "" \/ ~accepted) => calls = <<>>

\* the description holds nothing but whitespace
IsBlankText(t) == \A i \in 1..Len(t) : t[i] \in {" ", "\t", "\r", "\n"}

WasShown(kind, text) ==
    \E i \in 1..Len(shown) : shown[i] = [kind |-> kind, text |-> text]

SuccessShown ==
    WasShown("success", "Complete BPM Lifecycle Analysis Generated Successfully!")

\* C11: the description is validated before any stage runs: when the action
\* is triggered with an empty or whitespace-only description, an error is
\* shown, no stage's external call is issued and the final success notice is
\* not displayed.
C11_BlankDescriptionRunsNoStage ==
    IsBlankText(description) =>
        /\ calls = <<>>
        /\ Position = 0
        /\ ~SuccessShown
        /\ (clicked /\ llm # "None" /\ pc = "returned")
              => WasShown("error", "Please provide a process description!")

\* the button was pressed over a whitespace-only description
C11_Witness ==
    /\ pc = "returned"
    /\ clicked
    /\ llm = "ChatOpenAI"
    /\ description # <<>>
    /\ IsBlankText(description)
    /\ WasShown("error", "Please provide a process description!")
    /\ calls = <<>>

\* the analysis action is triggered: the script has a client, the button was
\* pressed and the description is not blank
Triggered == pc = "button" /\ clicked /\ ~IsBlankText(description)

Completed == pc = "done" /\ SuccessShown

\* C12: whenever the analysis action is triggered with a valid credential and
\* a non-blank description, the run reaches its end and displays the final
\* 'Complete BPM Lifecycle Analysis Generated Successfully' notice, however
\* many stages failed or were skipped.
C12_TriggeredRunCompletes == Triggered ~> Completed

\* a completed run with an accepted credential in which every stage failed or
\* was skipped
C12_Witness ==
    /\ Completed
    /\ accepted
    /\ \A k \in 1..5 : CallFailed(Stages[k]) \/ Skipped(Stages[k])
    /\ DOMAIN locals = {}

\* the stage displayed its inline error
ErrorShown(stage) == WasShown("error", "Error in " \o stage \o " stage")

\* the arguments of the stage's external call
InputOf(stage) == (CHOOSE c \in {calls[i] : i \in 1..Len(calls)} : c.stage = stage).input

\* C13: a successor stage is attempted if and only if its predecessor's
\* external call returned a result, not if and only if the predecessor
\* finished without error: when the discovery (or redesign) call returns and
\* the stage then fails in task extraction, diagram building or document
\* building, the stage displays an error and the analysis (or monitoring)
\* stage is still attempted, with the returned text.
C13_SuccessorFollowsReturnedResult ==
    /\ Position > 3 =>
          /\ Attempted("analysis") <=> HasOutput("discovery")
          /\ Attempted("analysis") => InputOf("analysis") = <<locals["discovery_result"]>>
          /\ (HasOutput("discovery") /\ ErrorShown("discovery")) => Attempted("analysis")
    /\ Position > 5 =>
          /\ Attempted("monitoring") <=> HasOutput("redesign")
          /\ Attempted("monitoring") => InputOf("monitoring") = <<locals["redesign_result"]>>
          /\ (HasOutput("redesign") /\ ErrorShown("redesign")) => Attempted("monitoring")

\* discovery failed in task extraction and redesign in diagram building, both
\* after their calls had returned; analysis and monitoring were attempted
C13_Witness ==
    /\ pc = "done"
    /\ ErrorShown("discovery")
    /\ HasOutput("discovery")
    /\ "current_tasks" \notin DOMAIN locals
    /\ Attempted("analysis")
    /\ InputOf("analysis") = <<locals["discovery_result"]>>
    /\ ErrorShown("redesign")
    /\ HasOutput("redesign")
    /\ "redesigned_graph" \in DOMAIN locals
    /\ "redesigned_xml" \notin DOMAIN locals
    /\ Attempted("monitoring")

====
